---- MODULE Spec2Model ----
(***************************************************************************)
(* A model of LogNorm: the mmap line indexer and batch partitioner of      *)
(* main.rs, the per-format parsers of parsers/*.rs, the scheduler and      *)
(* writer thread of main.rs and the streaming writer of output.rs.         *)
(*                                                                         *)
(* Bytes are one-character strings and byte strings are sequences of       *)
(* them.  Six specifications share the variables below; each one pins     *)
(* the variables it does not use:                                          *)
(*   SpecWriter     the Writer state machine of output.rs                  *)
(*   SpecPartition  the line indexer and batch partitioner of main         *)
(*   SpecParse      one parser applied to one input range                  *)
(*   SpecChunk      one parser's sub-chunk path on one input range         *)
(*   Spec           the whole run of main: scheduler, queue, writer thread *)
(*   FairSpec       the whole run without write failures, fairly scheduled *)
(***************************************************************************)
EXTENDS Integers, Sequences, FiniteSets, TLC

VARIABLES
    \* ---- output.rs: the writer
    output_arg,     \* the destination identifier handed to create_writer
    fs_ok,          \* whether create_dir_all / File::create succeed
    wpc,            \* "idle" | "new" | "open" | "finished" | "error" | "panicked"
    writer,         \* the Writer enum value: [kind, flag]
    out,            \* what has been written to the destination, in order
    passed,         \* history: how many entries write_batch was handed
    wcalls          \* history: the calls made on the writer, in order

wvars == <<output_arg, fs_ok, wpc, writer, out, passed, wcalls>>

VARIABLES
    \* ---- main.rs: the line indexer and the batch partitioner
    mmap,           \* the mapped file, a byte string
    batch_size,     \* args.batch_size
    mpc,            \* where main is
    line_positions, \* the offsets of the newlines, ascending, 0-based
    total_lines,
    batches         \* the byte ranges built so far: [start, end], inclusive

mvars == <<mmap, batch_size, mpc, line_positions, total_lines, batches>>

VARIABLES
    \* ---- parsers/: one parser applied to one input range
    p_fmt,          \* the format
    p_input,        \* the byte range handed to the parser
    p_pc,           \* "ready" | "done" | "idle"
    p_result,       \* what parse returned: [r, out]
    \* ---- parsers/: the sub-chunk path of parse_parallel
    c_budget,       \* the byte budget
    c_ranges,       \* the sub-chunk ranges built: [start, end), 0-based
    c_parts,        \* per range: what its task returned, [r |-> "none"] before
    c_finished      \* history: the ranges in the order their tasks finished

cvars == <<c_budget, c_ranges, c_parts, c_finished>>

pvars == <<p_fmt, p_input, p_pc, p_result, cvars>>

VARIABLES
    \* ---- main.rs: the scheduler, the queue and the writer thread
    preset,         \* args.preset
    tasks,          \* per batch: [st, parsed], st "todo" | "parsed" | "sent" | "panicked"
    queue,          \* the unbounded channel: the batch results sent, not yet received
    tx_alive,       \* a sender of the channel is alive
    rx_alive,       \* the receiver of the channel is alive
    total_entries   \* the sum of the par_iter

svars == <<preset, tasks, queue, tx_alive, rx_alive, total_entries>>

vars == <<wvars, mvars, pvars, svars>>

-----------------------------------------------------------------------------
(* Byte strings.                                                           *)

NL == "\n"

EndsWith(s, suf) ==
    /\ Len(s) >= Len(suf)
    /\ SubSeq(s, Len(s) - Len(suf) + 1, Len(s)) = suf

Contains(s, c) == \E i \in 1..Len(s) : s[i] = c

-----------------------------------------------------------------------------
(* config.rs: LogEntry.  Every parser fills every field with Some(..), so  *)
(* a field is its byte string.                                             *)

LogEntry(ts, h, svc, lvl, msg) ==
    [timestamp |-> ts, host |-> h, service |-> svc, level |-> lvl, message |-> msg]

-----------------------------------------------------------------------------
(* output.rs                                                               *)

Tok(t, v) == [t |-> t, v |-> v]

NoWriter == [kind |-> "None", flag |-> FALSE]

\* The destination identifiers the model tries.
OutputArgs ==
    { <<"s","t","d","o","u","t">>,
      <<"j","s","o","n">>,
      <<"o",".","j","s","o","n">>,
      <<"o",".","j","s","o","n","l">>,
      <<"o",".","n","d","j","s","o","n">>,
      <<"o",".","c","s","v">>,
      <<"o",".","t","s","v">>,
      <<"d","/","o">>,
      <<"o",".","t","x","t">>,
      <<"o","u","t">> }

\* create_writer: Ok(writer) or Err.  The file arms fail when the
\* filesystem does (create_parent_dirs(path)?, File::create(path)?).
create_writer(arg, fsok) ==
    LET file(kind, flag) ==
            IF fsok THEN [ok |-> TRUE, w |-> [kind |-> kind, flag |-> flag]]
                    ELSE [ok |-> FALSE, w |-> NoWriter]
    IN  IF arg = <<"s","t","d","o","u","t">> \/ arg = <<"j","s","o","n">>
        THEN [ok |-> TRUE, w |-> [kind |-> "Stdout", flag |-> FALSE]]
        ELSE IF EndsWith(arg, <<".","j","s","o","n">>)
        THEN file("JsonFile", TRUE)
        ELSE IF EndsWith(arg, <<".","j","s","o","n","l">>)
                \/ EndsWith(arg, <<".","n","d","j","s","o","n">>)
        THEN file("JsonlFile", FALSE)
        ELSE IF EndsWith(arg, <<".","c","s","v">>)
        THEN file("CsvFile", FALSE)
        ELSE IF EndsWith(arg, <<".","t","s","v">>)
        THEN file("TsvFile", FALSE)
        ELSE IF Contains(arg, "/") \/ Contains(arg, "\\") \/ Contains(arg, ".")
        THEN file("JsonFile", TRUE)
        ELSE [ok |-> FALSE, w |-> NoWriter]

\* for (i, log) in logs.iter().enumerate(): "," before every entry but the
\* first of the batch, then "\n" and the serialized entry.
RECURSIVE JsonEntries(_, _)
JsonEntries(logs, i) ==
    IF i > Len(logs) THEN <<>>
    ELSE (IF i > 1 THEN <<Tok(",", <<>>)>> ELSE <<>>)
         \o <<Tok("obj", logs[i])>> \o JsonEntries(logs, i + 1)

\* The Writer::JsonFile arm of write_batch.
WriteJsonFile(w, o, logs) ==
    [w |-> [w EXCEPT !.flag = FALSE],
     o |-> o \o (IF w.flag THEN <<Tok("[", <<>>)>> ELSE <<Tok(",", <<>>)>>)
             \o JsonEntries(logs, 1)]

\* One line per entry: the Stdout ("dump") and JsonlFile ("obj") arms and
\* the data rows ("row") of the CsvFile and TsvFile arms.
Lines(t, logs) == [i \in 1..Len(logs) |-> Tok(t, logs[i])]

\* A writer that never records that the header is out.
WriteDelimited_FlagNeverSet(w, o, logs) ==
    [w |-> w,
     o |-> o \o (IF ~w.flag THEN <<Tok("header", <<>>)>> ELSE <<>>)
             \o Lines("row", logs)]

\* The Writer::CsvFile and Writer::TsvFile arms of write_batch.
WriteDelimited(w, o, logs) ==
    [w |-> [w EXCEPT !.flag = TRUE],
     o |-> o \o (IF ~w.flag THEN <<Tok("header", <<>>)>> ELSE <<>>)
             \o Lines("row", logs)]

write_batch(w, o, logs) ==
    CASE w.kind = "Stdout"    -> [w |-> w, o |-> o \o Lines("dump", logs)]
      [] w.kind = "JsonFile"  -> WriteJsonFile(w, o, logs)
      [] w.kind = "JsonlFile" -> [w |-> w, o |-> o \o Lines("obj", logs)]
      [] w.kind \in {"CsvFile", "TsvFile"} -> WriteDelimited(w, o, logs)

\* finish: "\n]" and a newline for the JSON document, then a flush.
finish(w, o) ==
    IF w.kind = "JsonFile" THEN o \o <<Tok("]", <<>>)>> ELSE o

-----------------------------------------------------------------------------
(* main.rs: line indexer and batch partitioner.  Offsets are 0-based as in *)
(* the source: the byte at offset i is bytes[i + 1].                       *)

\* memchr_iter(c, bytes).collect(): every offset holding c, ascending.
memchr_iter(c, bytes) ==
    LET hits == { i \in 0..(Len(bytes) - 1) : bytes[i + 1] = c }
    IN  [k \in 1..Cardinality(hits) |->
            CHOOSE i \in hits : Cardinality({ j \in hits : j < i }) = k - 1]

\* &bytes[a..b]: the bytes at offsets a .. b-1.
Slice(bytes, a, b) == SubSeq(bytes, a + 1, b)

\* slice.chunks(n): how many chunks, and the k-th one (k = 1, 2, ..); every
\* chunk holds n elements but the last, which holds the rest; none is empty.
NumChunks(s, n) == (Len(s) + n - 1) \div n

Chunk(s, n, k) ==
    SubSeq(s, (k - 1) * n + 1, IF k * n < Len(s) THEN k * n ELSE Len(s))

\* chunk.first().copied().unwrap_or(0)
ChunkStart(chunk) == IF chunk = <<>> THEN 0 ELSE chunk[1]

\* chunk.last().copied().unwrap_or(mmap.len() - 1)
ChunkEnd(chunk, buf) == IF chunk = <<>> THEN Len(buf) - 1 ELSE chunk[Len(chunk)]

\* The closure of the map over the chunks: &mmap[start..=end].
BatchOf(chunk, buf) == [start |-> ChunkStart(chunk), end |-> ChunkEnd(chunk, buf)]

BatchBytes(b, buf) == Slice(buf, b.start, b.end + 1)

\* let line_positions = memchr_iter(b'\n', &mmap).collect();
\* let total_lines = line_positions.len();
IndexLines ==
    /\ mpc = "index"
    /\ line_positions' = memchr_iter(NL, mmap)
    /\ total_lines' = Len(line_positions')
    /\ mpc' = "slice"
    /\ UNCHANGED <<mmap, batch_size, batches, wvars, pvars, svars>>

\* One chunk of line_positions.chunks(args.batch_size) mapped to its batch.
SliceBatch ==
    /\ mpc = "slice"
    /\ Len(batches) < NumChunks(line_positions, batch_size)
    /\ batches' = Append(batches,
            BatchOf(Chunk(line_positions, batch_size, Len(batches) + 1), mmap))
    /\ UNCHANGED <<mmap, batch_size, mpc, line_positions, total_lines, wvars, pvars, svars>>

\* .collect(): the chunks are exhausted.
SliceDone ==
    /\ mpc = "slice"
    /\ Len(batches) = NumChunks(line_positions, batch_size)
    /\ mpc' = "sliced"
    /\ UNCHANGED <<mmap, batch_size, line_positions, total_lines, batches, wvars, pvars, svars>>

-----------------------------------------------------------------------------
(* parsers/*.rs: what the four line extractors share.                      *)

SERVICE_SYSLOG  == <<"s","y","s","l","o","g">>
SERVICE_NGINX   == <<"n","g","i","n","x">>
SERVICE_JOURNAL == <<"j","o","u","r","n","a","l","c","t","l">>
SERVICE_PYTHON  == <<"p","y","t","h","o","n","_","w","e","b">>
LEVEL_INFO  == <<"i","n","f","o">>
LEVEL_WARN  == <<"w","a","r","n">>
LEVEL_ERROR == <<"e","r","r","o","r">>

\* The result of a line extractor: Some(entry), None, or a panic (a slice
\* whose bounds lie outside the line).
Some(e) == [r |-> "some", e |-> e]
None    == [r |-> "none", e |-> <<>>]
Panic   == [r |-> "panic", e |-> <<>>]

\* while i < len && bytes[i] is not one of stop { i += 1 }: the i it ends
\* at, the first offset from i on that holds a stop byte, or len when there
\* is none (i itself when i is already at or past len).
ScanTo(bytes, i, stop) ==
    LET hits == { j \in i..(Len(bytes) - 1) : bytes[j + 1] \in stop }
    IN  IF hits # {} THEN CHOOSE j \in hits : \A k \in hits : j <= k
        ELSE IF i < Len(bytes) THEN Len(bytes) ELSE i

\* while i < len && bytes[i] == c { i += 1 }
SkipWhile(bytes, i, c) ==
    LET hits == { j \in i..(Len(bytes) - 1) : bytes[j + 1] # c }
    IN  IF hits # {} THEN CHOOSE j \in hits : \A k \in hits : j <= k
        ELSE IF i < Len(bytes) THEN Len(bytes) ELSE i

\* &bytes[a..b] is in bounds: Rust panics unless a <= b <= len.
InBounds(bytes, a, b) == a <= b /\ b <= Len(bytes)

\* A rest that starts one byte late.
RestFrom_OneByteLate(bytes, i) ==
    IF i < Len(bytes) THEN Slice(bytes, i + 1, Len(bytes)) ELSE <<>>

\* if i < len { &bytes[i..] } else { "" }
RestFrom(bytes, i) == IF i < Len(bytes) THEN Slice(bytes, i, Len(bytes)) ELSE <<>>

LowerMap ==
    [A |-> "a", B |-> "b", C |-> "c", D |-> "d", E |-> "e", F |-> "f",
     G |-> "g", H |-> "h", I |-> "i", J |-> "j", K |-> "k", L |-> "l",
     M |-> "m", N |-> "n", O |-> "o", P |-> "p", Q |-> "q", R |-> "r",
     S |-> "s", T |-> "t", U |-> "u", V |-> "v", W |-> "w", X |-> "x",
     Y |-> "y", Z |-> "z"]

\* u8::to_ascii_lowercase, and char::to_lowercase on ASCII
Lower(c) == IF c \in DOMAIN LowerMap THEN LowerMap[c] ELSE c

to_lowercase(s) == [i \in 1..Len(s) |-> Lower(s[i])]

\* str::contains(pat)
HasSub(s, pat) ==
    \E i \in 1..(Len(s) - Len(pat) + 1) : SubSeq(s, i, i + Len(pat) - 1) = pat

\* msg_bytes.windows(n).any(|w| w.eq_ignore_ascii_case(pat))
HasSubIgnoreCase(s, pat) == HasSub(to_lowercase(s), pat)

-----------------------------------------------------------------------------
(* parsers/syslog.rs                                                       *)

SYSLOG_MIN_LINE_LEN == 15

\* The level loop: for b in msg_bytes { match *b { .. } }, from byte k on.
RECURSIVE syslog_level(_, _, _)
syslog_level(message, k, level) ==
    IF k > Len(message) THEN level
    ELSE IF message[k] \in {"E", "e"}
    THEN IF HasSub(to_lowercase(message), <<"e","r","r","o","r">>)
            \/ HasSub(to_lowercase(message), <<"f","a","i","l">>)
         THEN LEVEL_ERROR
         ELSE syslog_level(message, k + 1, level)
    ELSE IF message[k] \in {"W", "w"}
    THEN syslog_level(message, k + 1,
            IF HasSub(to_lowercase(message), <<"w","a","r","n">>)
            THEN LEVEL_WARN ELSE level)
    ELSE syslog_level(message, k + 1, level)

syslog_parse_line(line) ==
    LET len == Len(line)
        i0  == IF len > 0 /\ line[1] = "<" THEN ScanTo(line, 0, {">"}) + 1 ELSE 0
    IN  IF i0 + 15 > len THEN None
        ELSE
        LET timestamp  == Slice(line, i0, i0 + 15)
            host_start == i0 + 16
            i1         == ScanTo(line, host_start, {" "})
        IN  IF i1 >= len THEN None
            ELSE
            LET hostname  == Slice(line, host_start, i1)
                app_start == i1 + 1
                i2        == ScanTo(line, app_start, {":"})
            IN  IF i2 >= len THEN None
                ELSE
                LET app     == Slice(line, app_start, i2)
                    message == RestFrom(line, i2 + 2)
                IN  Some(LogEntry(timestamp, hostname, SERVICE_SYSLOG,
                                  syslog_level(message, 1, LEVEL_INFO),
                                  app \o <<":", " ">> \o message))

-----------------------------------------------------------------------------
(* parsers/journalctl.rs                                                   *)

JOURNAL_MIN_LINE_LEN == 20

\* The level loop: for &b in msg_bytes { match b | 0x20 { .. } }; each arm
\* that finds its word breaks.
RECURSIVE journal_level(_, _)
journal_level(message, k) ==
    IF k > Len(message) THEN LEVEL_INFO
    ELSE IF Lower(message[k]) = "e"
            /\ HasSubIgnoreCase(message, <<"e","r","r","o","r">>)
    THEN LEVEL_ERROR
    ELSE IF Lower(message[k]) = "f"
            /\ HasSubIgnoreCase(message, <<"f","a","i","l">>)
    THEN LEVEL_ERROR
    ELSE IF Lower(message[k]) = "w"
            /\ HasSubIgnoreCase(message, <<"w","a","r","n">>)
    THEN LEVEL_WARN
    ELSE journal_level(message, k + 1)

journal_parse_line(line) ==
    LET len == Len(line)
    IN  IF len < 16 THEN None
        ELSE
        LET timestamp  == Slice(line, 0, 15)
            host_start == 16
            i1         == ScanTo(line, host_start, {" "})
            hostname   == Slice(line, host_start, i1)
            svc_start  == i1 + 1
            i2         == ScanTo(line, svc_start, {":", "["})
        IN  \* let service = ..(&line[svc_start..i])
            IF ~InBounds(line, svc_start, i2) THEN Panic
            ELSE
            LET message == RestFrom(line, i2 + 1)
            IN  Some(LogEntry(timestamp, hostname, SERVICE_JOURNAL,
                              journal_level(message, 1), message))

-----------------------------------------------------------------------------
(* parsers/python_web.rs                                                   *)

PYTHON_MIN_LINE_LEN == 20

\* A level that compares the token as it is written.
python_level_CaseSensitive(level_str) ==
    IF level_str = <<"e","r","r","o","r">> THEN LEVEL_ERROR
    ELSE IF level_str = <<"w","a","r","n">>
            \/ level_str = <<"w","a","r","n","i","n","g">>
    THEN LEVEL_WARN
    ELSE LEVEL_INFO

python_level(level_str) ==
    LET l == to_lowercase(level_str)
    IN  IF l = <<"e","r","r","o","r">> THEN LEVEL_ERROR
        ELSE IF l = <<"w","a","r","n">> \/ l = <<"w","a","r","n","i","n","g">>
        THEN LEVEL_WARN
        ELSE LEVEL_INFO

python_parse_line(line) ==
    LET len == Len(line)
        i1        == ScanTo(line, 0, {" "})
        level_str == Slice(line, 0, i1)
        ts_start  == i1 + 1
        i2        == ScanTo(line, ts_start, {" "})
    IN  \* let timestamp = &s[ts_start..i]
        IF ~InBounds(line, ts_start, i2) THEN Panic
        ELSE
        LET timestamp == Slice(line, ts_start, i2)
            i3        == i2 + 1
            \* Skip microseconds if present
            mod_start == IF i3 < len /\ line[i3 + 1] = ","
                         THEN ScanTo(line, i3, {" "}) + 1 ELSE i3
            i4        == ScanTo(line, mod_start, {" "})
        IN  \* let module = &s[mod_start..i]
            IF ~InBounds(line, mod_start, i4) THEN Panic
            ELSE
            LET module  == Slice(line, mod_start, i4)
                message == RestFrom(line, i4 + 1)
            IN  Some(LogEntry(timestamp, module, SERVICE_PYTHON,
                              python_level(level_str), message))

-----------------------------------------------------------------------------
(* parsers/nginx.rs                                                        *)

NGINX_MIN_LINE_LEN == 20

\* Option<usize> as an integer: Absent is None.
Absent == -1

\* The offset of the first c at or after offset from, Absent when none.
FirstFrom(bytes, c, from) ==
    LET j == ScanTo(bytes, from, {c})
    IN  IF j < Len(bytes) THEN j ELSE Absent

\* The first c after offset prev, Absent when prev is.
FirstAfter(bytes, c, prev) ==
    IF prev = Absent THEN Absent ELSE FirstFrom(bytes, c, prev + 1)

\* Some(i + 1) for Some(i)
Next1(prev) == IF prev = Absent THEN Absent ELSE prev + 1

\* The field scan of parse_line_to_logentry: while i < len { match bytes[i]
\* { .. } i += 1 }.  Each arm's guard lets it fire once, on the first byte
\* that meets it:
\*   ' ' if ip_end.is_none()                        the first ' '
\*   '[' if ts_start.is_none()                      the first '['
\*   ']' if ts_start.is_some() && ts_end.is_none()  the first ']' after it
\*   '"' if ts_end.is_some() && req_start.is_none() the first '"' after that
\*   '"' if req_start.is_some() && req_end.is_none() the next '"'; break
\* and the break leaves ip_end unset when the first ' ' lies beyond it.
nginx_fields(sp, lb, rb, q1, q2) ==
    [ip_end    |-> IF q2 # Absent /\ sp > q2 THEN Absent ELSE sp,
     ts_start  |-> Next1(lb),
     ts_end    |-> rb,
     req_start |-> Next1(q1),
     req_end   |-> q2]

nginx_scan(bytes) ==
    LET lb == FirstFrom(bytes, "[", 0)
        rb == FirstAfter(bytes, "]", lb)
        q1 == FirstAfter(bytes, "\"", rb)
        q2 == FirstAfter(bytes, "\"", q1)
    IN  nginx_fields(FirstFrom(bytes, " ", 0), lb, rb, q1, q2)

DigitVal ==
    ("0" :> 0) @@ ("1" :> 1) @@ ("2" :> 2) @@ ("3" :> 3) @@ ("4" :> 4) @@
    ("5" :> 5) @@ ("6" :> 6) @@ ("7" :> 7) @@ ("8" :> 8) @@ ("9" :> 9)

\* fast_parse_status: Absent for None.  b.wrapping_sub(b'0') > 9 holds of
\* every byte that is no digit.
fast_parse_status(status) ==
    IF Len(status) # 3 THEN Absent
    ELSE IF \E k \in 1..3 : status[k] \notin DOMAIN DigitVal THEN Absent
    ELSE DigitVal[status[1]] * 100 + DigitVal[status[2]] * 10 + DigitVal[status[3]]

\* A level that does not tell 4xx from the statuses below it.
nginx_level_NoWarn(status_num) ==
    IF status_num >= 500 THEN LEVEL_ERROR ELSE LEVEL_INFO

nginx_level(status_num) ==
    IF status_num >= 400 /\ status_num < 500 THEN LEVEL_WARN
    ELSE IF status_num >= 500 THEN LEVEL_ERROR
    ELSE LEVEL_INFO

\* The method and the path of the request line, then "METHOD PATH -> STATUS".
\* rest.split(' ').next().unwrap_or("")
FirstToken(rest) == Slice(rest, 0, ScanTo(rest, 0, {" "}))

\* request.find(' ') at offset sp (Len(request) when there is no space)
nginx_method_path(request, sp) ==
    IF sp < Len(request)
    THEN Slice(request, 0, sp) \o <<" ">>
            \o FirstToken(Slice(request, sp + 1, Len(request)))
    ELSE request \o <<" ">>

nginx_message(request, status) ==
    nginx_method_path(request, ScanTo(request, 0, {" "}))
        \o <<" ", "-", ">", " ">> \o status

\* parse_line_to_logentry from the status on: the three bytes at
\* status_start, the level and the entry.
nginx_entry(line, f, status_start) ==
    IF status_start + 3 > Len(line) THEN None
    ELSE IF fast_parse_status(Slice(line, status_start, status_start + 3)) = Absent
    THEN None
    ELSE Some(LogEntry(
            Slice(line, f.ts_start, f.ts_end),
            Slice(line, 0, f.ip_end),
            SERVICE_NGINX,
            nginx_level(fast_parse_status(Slice(line, status_start, status_start + 3))),
            nginx_message(Slice(line, f.req_start, f.req_end),
                          Slice(line, status_start, status_start + 3))))

\* parse_line_to_logentry once the scan is done: the five `?`, then the
\* spaces before the status are skipped.
nginx_after_scan(line, f) ==
    IF \/ f.ip_end = Absent \/ f.ts_start = Absent \/ f.ts_end = Absent
       \/ f.req_start = Absent \/ f.req_end = Absent
    THEN None
    ELSE nginx_entry(line, f, SkipWhile(line, f.req_end + 1, " "))

parse_line_to_logentry(line) == nginx_after_scan(line, nginx_scan(line))

-----------------------------------------------------------------------------
(* The chunk scanners and the format dispatch.                             *)

\* parsers/apache.rs is not among the sources at hand.  By the design
\* document it has the shape of the nginx parser and the service tag
\* "apache", with the level derived from the status as for nginx.
SERVICE_APACHE == <<"a","p","a","c","h","e">>

APACHE_MIN_LINE_LEN == 20

apache_parse_line(line) ==
    LET r == parse_line_to_logentry(line)
    IN  IF r.r = "some" THEN Some([r.e EXCEPT !.service = SERVICE_APACHE]) ELSE r

\* The formats whose parsers are at hand, and the names parsers::parse knows.
Formats == {"syslog", "nginx", "journalctl", "python_web"}

AllFormats == Formats \cup {"apache"}

MinLineLen(fmt) ==
    CASE fmt = "syslog"     -> SYSLOG_MIN_LINE_LEN
      [] fmt = "nginx"      -> NGINX_MIN_LINE_LEN
      [] fmt = "journalctl" -> JOURNAL_MIN_LINE_LEN
      [] fmt = "python_web" -> PYTHON_MIN_LINE_LEN
      [] fmt = "apache"     -> APACHE_MIN_LINE_LEN

parse_line(fmt, line) ==
    CASE fmt = "syslog"     -> syslog_parse_line(line)
      [] fmt = "nginx"      -> parse_line_to_logentry(line)
      [] fmt = "journalctl" -> journal_parse_line(line)
      [] fmt = "python_web" -> python_parse_line(line)
      [] fmt = "apache"     -> apache_parse_line(line)

\* if line.len() >= MIN_LINE_LEN { if let Some(entry) = parse_line(line)
\* { out.push(entry) } }: None when the line is skipped before extraction.
ScanLine(fmt, line) ==
    IF Len(line) >= MinLineLen(fmt) THEN parse_line(fmt, line) ELSE None

\* A scanner that pushes every entry twice.
Push_Twice(acc, r) ==
    IF r.r = "some" THEN Append(Append(acc, r.e), r.e) ELSE acc

\* if let Some(entry) = parse_line(line) { out.push(entry) }
Push(acc, r) == IF r.r = "some" THEN Append(acc, r.e) ELSE acc

\* The result of a scan that ends with the line result r: a panic in a line
\* unwinds out of the scan.
ScanEnd(acc, r) ==
    IF r.r = "panic" THEN [r |-> "panic", out |-> <<>>]
    ELSE [r |-> "ok", out |-> Push(acc, r)]

\* parse_chunk / parse_chunk_into_vec from the k-th newline on: the lines
\* bytes[start..nl] in order (chunk_line takes the k-th line's result r),
\* then the bytes after the last newline when there are any.
RECURSIVE chunk_from(_, _, _, _, _, _)
RECURSIVE chunk_line(_, _, _, _, _, _)
chunk_from(fmt, bytes, nls, k, start, acc) ==
    IF k > Len(nls)
    THEN IF start < Len(bytes)
         THEN ScanEnd(acc, ScanLine(fmt, Slice(bytes, start, Len(bytes))))
         ELSE [r |-> "ok", out |-> acc]
    ELSE chunk_line(fmt, bytes, nls, k, acc,
                    ScanLine(fmt, Slice(bytes, start, nls[k])))

chunk_line(fmt, bytes, nls, k, acc, r) ==
    IF r.r = "panic" THEN [r |-> "panic", out |-> <<>>]
    ELSE chunk_from(fmt, bytes, nls, k + 1, nls[k] + 1, Push(acc, r))

parse_chunk(fmt, bytes) == chunk_from(fmt, bytes, memchr_iter(NL, bytes), 1, 0, <<>>)

parse_single(fmt, bytes) == parse_chunk(fmt, bytes)

CHUNK_BYTES == 4194304

\* A range-building loop that cuts at the budget, in the middle of a line.
RECURSIVE build_ranges_Unaligned(_, _, _)
build_ranges_Unaligned(bytes, start, chunk_bytes) ==
    IF start >= Len(bytes) THEN <<>>
    ELSE
    LET len == Len(bytes)
        end == IF start + chunk_bytes < len THEN start + chunk_bytes ELSE len
    IN  <<[start |-> start, end |-> end]>>
            \o build_ranges_Unaligned(bytes, end, chunk_bytes)

\* The range-building loop of parse_parallel from offset start on, with the
\* byte budget chunk_bytes: each range ends after the first newline at or
\* beyond start + chunk_bytes, or at the end of the input.
RECURSIVE build_ranges(_, _, _)
build_ranges(bytes, start, chunk_bytes) ==
    IF start >= Len(bytes) THEN <<>>
    ELSE
    LET len == Len(bytes)
        e0  == IF start + chunk_bytes < len THEN start + chunk_bytes ELSE len
        e1  == IF e0 < len THEN ScanTo(bytes, e0, {NL}) ELSE len
        end == IF e0 < len /\ e1 < len THEN e1 + 1 ELSE e1
    IN  <<[start |-> start, end |-> end]>> \o build_ranges(bytes, end, chunk_bytes)

\* for mut p in parts { result.append(&mut p) }: the parts in range order; a
\* panic in any part's task is the panic of the whole parse.
RECURSIVE flatten_parts(_, _, _, _)
flatten_parts(fmt, bytes, ranges, k) ==
    IF k > Len(ranges) THEN [r |-> "ok", out |-> <<>>]
    ELSE
    LET part == parse_chunk(fmt, Slice(bytes, ranges[k].start, ranges[k].end))
        rest == flatten_parts(fmt, bytes, ranges, k + 1)
    IN  IF part.r = "panic" \/ rest.r = "panic" THEN [r |-> "panic", out |-> <<>>]
        ELSE [r |-> "ok", out |-> part.out \o rest.out]

parse_parallel(fmt, bytes, chunk_bytes) ==
    flatten_parts(fmt, bytes, build_ranges(bytes, 0, chunk_bytes), 1)

\* parse_syslog / parse_nginx / parse_journal / parse_python_logs
parse_format(fmt, input) ==
    IF Len(input) > CHUNK_BYTES
    THEN parse_parallel(fmt, input, CHUNK_BYTES)
    ELSE parse_single(fmt, input)

\* parsers::parse: Ok(entries), Err for an unknown name, or a panic.
parse(parser, input) ==
    IF parser \in AllFormats THEN parse_format(parser, input)
    ELSE [r |-> "err", out |-> <<>>]

-----------------------------------------------------------------------------
(* SpecWriter: create_writer, then any write_batch calls, then finish.     *)

MaxWriteCalls == 3
MaxBatchEntries == 2

SeqsUpTo(A, n) == UNION { [1..k -> A] : k \in 0..n }

\* The entries the writer is handed.
SampleEntries ==
    { LogEntry(<<"t","1">>, <<"h">>, SERVICE_SYSLOG, LEVEL_INFO, <<"a",":"," ","m">>),
      LogEntry(<<"t","2">>, <<"h">>, SERVICE_SYSLOG, LEVEL_ERROR, <<"a",":"," ","e">>) }

BatchInputs == SeqsUpTo(SampleEntries, MaxBatchEntries)

\* A call on the writer: the operation, the entries handed over and, in a
\* run of main, the index of the batch they came from (0 otherwise).
Call(op, arg, b) == [op |-> op, arg |-> arg, b |-> b]

\* No sub-chunk path under way; the budget is the one of the sources.
ChunkIdle ==
    /\ c_budget = CHUNK_BYTES /\ c_ranges = <<>> /\ c_parts = <<>>
    /\ c_finished = <<>>

ParseIdle ==
    /\ p_fmt = "none" /\ p_input = <<>> /\ p_pc = "idle"
    /\ p_result = [r |-> "none", out |-> <<>>]
    /\ ChunkIdle

SchedIdle ==
    /\ preset = "none" /\ tasks = <<>> /\ queue = <<>>
    /\ tx_alive = FALSE /\ rx_alive = FALSE /\ total_entries = 0

MainIdle ==
    /\ mmap = <<>> /\ batch_size = 1 /\ mpc = "idle"
    /\ line_positions = <<>> /\ total_lines = 0 /\ batches = <<>>

WriterInit ==
    /\ output_arg \in OutputArgs
    /\ fs_ok \in BOOLEAN
    /\ wpc = "new"
    /\ writer = NoWriter
    /\ out = <<>>
    /\ passed = 0
    /\ wcalls = <<>>
    /\ MainIdle
    /\ ParseIdle
    /\ SchedIdle

\* let mut writer = create_writer(&output_arg)
W_Create ==
    /\ wpc = "new"
    /\ LET r == create_writer(output_arg, fs_ok)
       IN  /\ writer' = r.w
           /\ wpc' = IF r.ok THEN "open" ELSE "error"
    /\ UNCHANGED <<output_arg, fs_ok, out, passed, wcalls, mvars, pvars, svars>>

\* writer.write_batch(&logs)
W_WriteBatch ==
    /\ wpc = "open"
    /\ Len(wcalls) < MaxWriteCalls
    /\ \E logs \in BatchInputs :
        LET r == write_batch(writer, out, logs)
        IN  /\ writer' = r.w
            /\ out' = r.o
            /\ passed' = passed + Len(logs)
            /\ wcalls' = Append(wcalls, Call("write_batch", logs, 0))
    /\ UNCHANGED <<output_arg, fs_ok, wpc, mvars, pvars, svars>>

\* writer.finish()
W_Finish ==
    /\ wpc = "open"
    /\ out' = finish(writer, out)
    /\ wpc' = "finished"
    /\ wcalls' = Append(wcalls, Call("finish", <<>>, 0))
    /\ UNCHANGED <<output_arg, fs_ok, writer, passed, mvars, pvars, svars>>

WriterNext == W_Create \/ W_WriteBatch \/ W_Finish

SpecWriter == WriterInit /\ [][WriterNext]_vars

\* What is read back from the destination.
Count(o, t) == Cardinality({ i \in 1..Len(o) : o[i].t = t })

\* A JSON array: "[", the elements with a "," exactly between consecutive
\* ones, "]".
ValidJsonArray(o) ==
    /\ Len(o) >= 2
    /\ o[1].t = "["
    /\ o[Len(o)].t = "]"
    /\ \/ Len(o) = 2
       \/ /\ Len(o) % 2 = 1
          /\ \A i \in 2..(Len(o) - 1) :
                o[i].t = IF i % 2 = 0 THEN "obj" ELSE ","

\* C1: for the single-JSON-document writer, after any sequence of
\* write_batch calls followed by finish the output is a valid JSON array
\* with one element per entry passed.
C1_JsonArrayValid ==
    (wpc = "finished" /\ writer.kind = "JsonFile")
        => (ValidJsonArray(out) /\ Count(out, "obj") = passed)

\* C10: the CSV and TSV writers have written the header at most once, and
\* once a data row is written the header is there exactly once, before
\* every row.
C10_HeaderOnce ==
    writer.kind \in {"CsvFile", "TsvFile"} =>
        /\ Count(out, "header") <= 1
        /\ Count(out, "row") >= 1 =>
              (Count(out, "header") = 1 /\ out[1].t = "header")

\* C10's case: a delimited writer that was handed rows in two calls.
C10_Witness ==
    /\ writer.kind \in {"CsvFile", "TsvFile"}
    /\ Len(wcalls) >= 2
    /\ wcalls[1].arg # <<>> /\ wcalls[2].arg # <<>>
    /\ Count(out, "row") >= 2

-----------------------------------------------------------------------------
(* SpecPartition: the line indexer and the batch partitioner of main on    *)
(* every buffer of up to MaxBufLen bytes.                                  *)

MaxBufLen == 4
MaxBatchSize == 3

Buffers == SeqsUpTo({"a", NL}, MaxBufLen) \ {<<>>}

WriterIdle ==
    /\ output_arg = <<>> /\ fs_ok = TRUE /\ wpc = "idle" /\ writer = NoWriter
    /\ out = <<>> /\ passed = 0 /\ wcalls = <<>>

PartitionInit ==
    /\ mmap \in Buffers
    /\ batch_size \in 1..MaxBatchSize
    /\ mpc = "index"
    /\ line_positions = <<>>
    /\ total_lines = 0
    /\ batches = <<>>
    /\ WriterIdle
    /\ ParseIdle
    /\ SchedIdle

PartitionNext == IndexLines \/ SliceBatch \/ SliceDone

SpecPartition == PartitionInit /\ [][PartitionNext]_vars

\* The newline-delimited lines of a buffer: one per newline, and one more
\* for a non-empty last segment that no newline ends.
NumLines(buf) ==
    Len(memchr_iter(NL, buf))
        + (IF buf # <<>> /\ buf[Len(buf)] # NL THEN 1 ELSE 0)

\* C2: the k-th batch starts at byte 0 when it is the first and at its
\* group's first boundary otherwise, and ends at its group's last boundary,
\* or at the buffer's final byte when the group is a last partial one.
C2_BatchBounds ==
    mpc = "sliced" =>
        \A k \in 1..Len(batches) :
            LET group == Chunk(line_positions, batch_size, k)
            IN  /\ batches[k].start = (IF k = 1 THEN 0 ELSE group[1])
                /\ batches[k].end =
                      (IF Len(group) < batch_size
                       THEN Len(mmap) - 1 ELSE group[Len(group)])

\* C3: a buffer of fewer lines than the batch size gives exactly one batch,
\* from byte 0 to the final byte.
C3_OneBatchWholeBuffer ==
    (mpc = "sliced" /\ NumLines(mmap) < batch_size) =>
        /\ Len(batches) = 1
        /\ batches[1] = [start |-> 0, end |-> Len(mmap) - 1]

\* C4: total_lines is the number of newline-delimited lines of the source,
\* an unterminated non-empty last segment counting as one.
C4_TotalLines ==
    mpc # "index" => total_lines = NumLines(mmap)

-----------------------------------------------------------------------------
(* SpecParse: one parser applied to one range holding one line, with or    *)
(* without its newline.  A line is the start of a line of its format (or of*)
(* such a line with one delimiter taken out, or cut short) followed by up  *)
(* to MaxTail bytes of the format's delimiters and a filler.               *)

MaxTail == 4

SyslogPrefixes ==
    { <<"J","a","n"," ","1","2"," ","0","6",":","3","0",":","0","0">>,
      <<"<","3","4",">","J","a","n"," ","1","2"," ","0","6",":","3","0",":",
        "0","0">>,
      <<"<","3","4","J","a","n"," ","1","2"," ","0","6",":","3","0",":","0",
        "0">>,
      <<"J","a","n"," ","1","2"," ","0","6",":","3">>,
      <<"<","3","4",">","J","a","n"," ","1","2"," ","0","6",":","3","0",
        ":","0","0"," ","h","o","s","t"," ","a","p","p",":"," ","e","r","r",
        "o","r"," ","d","i","s","k"," ","f","u","l","l">> }

SyslogTailBytes == {" ", ":", "h"}

JournalPrefixes ==
    { <<"J","a","n"," ","1","2"," ","0","6",":","3","0",":","0","0"," ">>,
      <<"J","a","n"," ","1","2"," ","0","6",":","3","0",":","0","0"," ","h",
        "o","s","t">>,
      <<"J","a","n"," ","1","2"," ","0","6",":","3","0",":","0","0"," ","h",
        "o","s","t"," ","s","s","h","d">>,
      <<"J","a","n"," ","1","2"," ","0","6",":","3","0">> }

JournalTailBytes == {" ", ":", "[", "s"}

PythonPrefixes ==
    { <<"W","A","R","N","I","N","G">>,
      <<"W","A","R","N","I","N","G",":","2","0","2","5","-","0","8","-","3",
        "1","T">>,
      <<"W","A","R","N","I","N","G"," ","2","0","2","5","-","0","8","-","3",
        "1">>,
      <<"W","A","R","N","I","N","G"," ","2","0","2","5","-","0","8","-","3",
        "1"," ","2","2",":","5","1",":","0","2">>,
      <<"W","A","R","N","I","N","G"," ","2","0","2","5","-","0","8","-",
        "3","1"," ","2","2",":","5","1",":","0","2",",","5","6","7"," ","v",
        "i","e","w","s",".","a","u","t","h">> }

PythonTailBytes == {" ", ",", "v"}

NginxPrefixes ==
    { <<"1","2","7",".","0",".","0",".","1"," ","-"," ","-"," ","[","1","2",
        "/","M","a","y","/","2","0","2","5",":","0","6",":","2","5",":","2",
        "4"," ","+","0","0","0","0","]"," ","\"","G","E","T"," ","/","i","n",
        "d","e","x",".","h","t","m","l"," ","H","T","T","P","/","1",".","1",
        "\"">>,
      <<"1","2","7",".","0",".","0",".","1"," ","-"," ","-"," ","1","2","/",
        "M","a","y","/","2","0","2","5",":","0","6",":","2","5",":","2","4",
        " ","+","0","0","0","0","]"," ","\"","G","E","T"," ","/","i","n","d",
        "e","x",".","h","t","m","l"," ","H","T","T","P","/","1",".","1","\"">>,
      <<"1","2","7",".","0",".","0",".","1"," ","-"," ","-"," ","[","1","2",
        "/","M","a","y","/","2","0","2","5",":","0","6",":","2","5",":","2",
        "4"," ","+","0","0","0","0"," ","\"","G","E","T"," ","/","i","n","d",
        "e","x",".","h","t","m","l"," ","H","T","T","P","/","1",".","1","\"">>,
      <<"1","2","7",".","0",".","0",".","1"," ","-"," ","-"," ","[","1","2",
        "/","M","a","y","/","2","0","2","5",":","0","6",":","2","5",":","2",
        "4"," ","+","0","0","0","0","]"," ","G","E","T"," ","/","i","n","d",
        "e","x",".","h","t","m","l"," ","H","T","T","P","/","1",".","1","\"">>,
      <<"1","2","7",".","0",".","0",".","1"," ","-"," ","-"," ","[","1","2",
        "/","M","a","y","/","2","0","2","5",":","0","6",":","2","5",":","2",
        "4"," ","+","0","0","0","0","]"," ","\"","G","E","T"," ","/","i","n",
        "d","e","x",".","h","t","m","l"," ","H","T","T","P","/","1",".","1">>,
      <<"1","2","7",".","0",".","0",".","1"," ","-"," ","-"," ","[">> }

NginxTailBytes == {" ", "2", "0", "x"}

\* Lines whose message is made of words that the level detection looks
\* for, in either case, and of words it does not look for.
MaxWords == 2

LevelWords ==
    { <<"e","r","r","o","r">>, <<"E","R","R","O","R">>, <<"f","a","i","l">>,
      <<"w","a","r","n">>, <<"W","a","r","n">>, <<"n","e","x","t">>,
      <<"o","k">> }

RECURSIVE JoinWords(_)
JoinWords(ws) ==
    IF Len(ws) = 1 THEN Head(ws) ELSE Head(ws) \o <<" ">> \o JoinWords(Tail(ws))

LevelTexts == { JoinWords(ws) : ws \in (SeqsUpTo(LevelWords, MaxWords) \ {<<>>}) }

\* python_web lines by their first token: the level names in several
\* cases, and tokens that are no level name.
PythonLevelTokens ==
    { <<"E","R","R","O","R">>, <<"e","r","r","o","r">>, <<"E","r","r","o","r">>,
      <<"W","A","R","N">>, <<"w","a","r","n","i","n","g">>, <<"W","A","R","N","I","N","G">>,
      <<"I","N","F","O">>, <<"C","R","I","T","I","C","A","L">>, <<"f","a","i","l">> }

PythonLevelPrefixes ==
    { lv \o <<" ","2","0","2","5","-","0","8","-","3","1">>
         \o <<" ","2","2",":","5","1",":","0","2",",","5","6","7">>
         \o <<" ","v","i","e","w","s",".","a","u","t","h"," ">>
         : lv \in PythonLevelTokens }

LevelPrefixes(fmt) ==
    CASE fmt = "syslog" ->
            { <<"J","a","n"," ","1","2"," ","0","6",":","3","0",":","0","0"," ",
              "h","o","s","t"," ","a","p","p",":"," ">> }
      [] fmt = "journalctl" ->
            { <<"J","a","n"," ","1","2"," ","0","6",":","3","0",":","0","0"," ",
              "h","o","s","t"," ","s","s","h","d","[","1","]",":"," ">> }
      [] fmt = "python_web" -> PythonLevelPrefixes
      [] OTHER -> {}

LevelLines(fmt) == { pre \o txt : pre \in LevelPrefixes(fmt), txt \in LevelTexts }

\* nginx lines up to the status: three request lines, of three tokens, of
\* two and of one.
StatusPrefixes ==
    { <<"1","2","7",".","0",".","0",".","1"," ","-"," ","-"," ","[","1",
      "2","/","M","a","y","/","2","0","2","5",":","0","6",":","2","5",
      ":","2","4"," ","+","0","0","0","0","]"," ","\"","G","E","T"," ",
      "/","i","n","d","e","x",".","h","t","m","l"," ","H","T","T","P",
      "/","1",".","1","\""," ">>,
      <<"1","2","7",".","0",".","0",".","1"," ","-"," ","-"," ","[","1",
      "2","/","M","a","y","/","2","0","2","5",":","0","6",":","2","5",
      ":","2","4"," ","+","0","0","0","0","]"," ","\"","P","O","S","T",
      " ","/","a","\""," ">>,
      <<"1","2","7",".","0",".","0",".","1"," ","-"," ","-"," ","[","1",
      "2","/","M","a","y","/","2","0","2","5",":","0","6",":","2","5",
      ":","2","4"," ","+","0","0","0","0","]"," ","\"","G","E","T","\"",
      " ">> }

\* The status tokens, on both sides of 400 and of 500.
StatusSamples ==
    { <<"2","0","0">>, <<"3","9","9">>, <<"4","0","0">>, <<"4","9","9">>,
      <<"5","0","0">>, <<"9","9","9">> }

\* The lines with a status: the status, then nothing or the body size.
StatusLines(fmt) ==
    IF fmt = "nginx"
    THEN { pre \o s \o rest : pre \in StatusPrefixes, s \in StatusSamples,
                              rest \in {<<>>, <<" ","6","1","2">>} }
    ELSE {}

PrefixesOf(fmt) ==
    CASE fmt = "syslog"     -> SyslogPrefixes
      [] fmt = "journalctl" -> JournalPrefixes
      [] fmt = "python_web" -> PythonPrefixes
      [] fmt = "nginx"      -> NginxPrefixes

TailBytesOf(fmt) ==
    CASE fmt = "syslog"     -> SyslogTailBytes
      [] fmt = "journalctl" -> JournalTailBytes
      [] fmt = "python_web" -> PythonTailBytes
      [] fmt = "nginx"      -> NginxTailBytes

LinesOf(fmt) ==
    { pre \o t : pre \in PrefixesOf(fmt), t \in SeqsUpTo(TailBytesOf(fmt), MaxTail) }
        \cup LevelLines(fmt)
        \cup StatusLines(fmt)

ParseInit ==
    /\ p_fmt \in Formats
    /\ p_input \in { l \o e : l \in LinesOf(p_fmt), e \in {<<>>, <<NL>>} }
    /\ p_pc = "ready"
    /\ p_result = [r |-> "none", out |-> <<>>]
    /\ ChunkIdle
    /\ WriterIdle
    /\ MainIdle
    /\ SchedIdle

\* let parsed = parsers::parse(&args.preset, s)
ParseRange ==
    /\ p_pc = "ready"
    /\ p_result' = parse(p_fmt, p_input)
    /\ p_pc' = "done"
    /\ UNCHANGED <<p_fmt, p_input, cvars, wvars, mvars, svars>>

ParseNext == ParseRange

SpecParse == ParseInit /\ [][ParseNext]_vars

\* The one line of the range.
TheLine ==
    IF p_input # <<>> /\ p_input[Len(p_input)] = NL
    THEN SubSeq(p_input, 1, Len(p_input) - 1) ELSE p_input

\* C5: whatever its lines hold, parse returns normally: no line makes the
\* parser panic or index outside the line.
C5_ParseNeverPanics ==
    p_pc = "done" => p_result.r # "panic"

\* The byte c occurs at an offset >= from (0-based).
OccursFrom(line, c, from) == \E i \in (from + 1)..Len(line) : line[i] = c

\* The bytes of a syslog line after the optional <priority> prefix.
AfterPriority(line) ==
    IF line # <<>> /\ line[1] = "<" /\ Contains(line, ">")
    THEN Slice(line, ScanTo(line, 0, {">"}) + 1, Len(line)) ELSE line

\* A delimiter the format's extractor requires is not in the line:
\*   syslog      no space after the host (which starts 16 bytes in), or no
\*               ':' after that space;
\*   nginx       no '[', no ']', or fewer than two '"';
\*   journalctl  no ':' and no '[' after the 15-byte timestamp;
\*   python_web  fewer than the two spaces that separate level, timestamp
\*               and module.
MissingDelimiter(fmt, line) ==
    CASE fmt = "syslog" ->
            LET body == AfterPriority(line)
            IN  ~ \E i \in 17..Len(body) :
                    body[i] = " " /\ OccursFrom(body, ":", i)
      [] fmt = "nginx" ->
            \/ ~Contains(line, "[")
            \/ ~Contains(line, "]")
            \/ Cardinality({ i \in 1..Len(line) : line[i] = "\"" }) < 2
      [] fmt = "journalctl" ->
            ~OccursFrom(line, ":", 15) /\ ~OccursFrom(line, "[", 15)
      [] fmt = "python_web" ->
            Cardinality({ i \in 1..Len(line) : line[i] = " " }) < 2

\* C6: a line shorter than its format's minimum length, or missing a
\* delimiter its extractor requires, contributes no entry.
C6_MalformedLineSkipped ==
    (p_pc = "done" /\ (\/ Len(TheLine) < MinLineLen(p_fmt)
                       \/ MissingDelimiter(p_fmt, TheLine)))
        => p_result.out = <<>>

-----------------------------------------------------------------------------
(* Spec: a whole run of main.  main indexes and slices the file, makes the *)
(* channel, spawns the writer thread, runs one task per batch on the       *)
(* worker pool, sums, drops the sender and joins the writer thread.        *)

MaxLines == 4

\* The values of --batch-size the runs are started with.
RunBatchSizes == {1, 2, 3}

\* The values of --preset: the four formats of parsers/ and a name that is
\* not a format.
RunPresets == {"syslog", "journalctl", "nginx", "python_web", "bogus"}

\* The lines of the nginx and python_web files: a line that parses and one
\* that is too short.
WebLines(p) ==
    IF p = "nginx"
    THEN { <<"1","2","7",".","0",".","0",".","1"," ","-"," ","-"," ","[",
           "1","2","/","M","a","y","/","2","0","2","5",":","0","6",":","2",
           "5",":","2","4"," ","+","0","0","0","0","]"," ","\"","G","E",
           "T"," ","/"," ","H","T","T","P","/","1",".","1","\""," ","5",
           "0","0"," ","6","1","2">>,
           <<"s","h","o","r","t"," ","l","i","n","e">> }
    ELSE { <<"W","A","R","N","I","N","G"," ","2","0","2","5","-","0","8",
           "-","3","1"," ","2","2",":","5","1",":","0","2",",","5","6","7",
           " ","v","i","e","w","s",".","a","u","t","h"," ","S","o","m","e",
           "t","h","i","n","g">>,
           <<"s","h","o","r","t"," ","l","i","n","e">> }

\* The files of the nginx and python_web runs are two lines shorter than
\* the others.
MaxLinesOf(p) ==
    IF p \in {"nginx", "python_web"} THEN MaxLines - 2 ELSE MaxLines

\* The lines of the files: for syslog a line that parses and one that is
\* too short; for journalctl a line that parses and one with no space after
\* the host.
RunLines(p) ==
    IF p \in {"nginx", "python_web"} THEN WebLines(p)
    ELSE IF p = "journalctl"
    THEN { <<"J","a","n"," ","1","2"," ","0","6",":","3","0",":","0","0"," ",
           "h","o","s","t"," ","s","s","h","d","[","1","]",":"," ",
           "o","k">>,
           <<"J","a","n"," ","1","2"," ","0","6",":","3","0",":","0","0"," ",
           "h","o","s","t","n","a","m","e">> }
    ELSE { <<"J","a","n"," ","1","2"," ","0","6",":","3","0",":","0","0"," ",
           "h","o","s","t"," ","a","p","p",":"," ","e","r","r","o",
           "r"," ","x">>,
           <<"s","h","o","r","t"," ","l","i","n","e">> }

RECURSIVE JoinLines(_)
JoinLines(ls) ==
    IF ls = <<>> THEN <<>> ELSE Head(ls) \o <<NL>> \o JoinLines(Tail(ls))

\* The files: up to MaxLinesOf(p) newline-terminated lines, or one line
\* that no newline ends.
RunFiles(p) ==
    { JoinLines(ls) : ls \in (SeqsUpTo(RunLines(p), MaxLinesOf(p)) \ {<<>>}) }
        \cup RunLines(p)

\* The values of --output, with whether the file system lets the file be
\* created.
RunOutputs ==
    { <<<<"o",".","j","s","o","n">>, TRUE>>,
      <<<<"o",".","j","s","o","n">>, FALSE>>,
      <<<<"o",".","c","s","v">>, TRUE>>,
      <<<<"o","u","t">>, TRUE>> }

Init ==
    /\ preset \in RunPresets
    /\ mmap \in RunFiles(preset)
    /\ batch_size \in RunBatchSizes
    /\ \E o \in RunOutputs : output_arg = o[1] /\ fs_ok = o[2]
    /\ mpc = "index"
    /\ line_positions = <<>> /\ total_lines = 0 /\ batches = <<>>
    /\ wpc = "idle" /\ writer = NoWriter /\ out = <<>> /\ passed = 0
    /\ wcalls = <<>>
    /\ tasks = <<>> /\ queue = <<>>
    /\ tx_alive = FALSE /\ rx_alive = FALSE /\ total_entries = 0
    /\ ParseIdle

\* normalizer.rs: normalize puts every timestamp back as it was.
normalize(entries) == [i \in 1..Len(entries) |-> entries[i]]

Task(st, parsed) == [st |-> st, parsed |-> parsed]

\* let (tx, rx) = unbounded(); let writer_handle = thread::spawn(..)
Spawn ==
    /\ mpc = "sliced"
    /\ mpc' = "par"
    /\ wpc' = "new"
    /\ tx_alive' = TRUE /\ rx_alive' = TRUE
    /\ tasks' = [b \in 1..Len(batches) |-> Task("todo", <<>>)]
    /\ UNCHANGED <<output_arg, fs_ok, writer, out, passed, wcalls>>
    /\ UNCHANGED <<mmap, batch_size, line_positions, total_lines, batches>>
    /\ UNCHANGED <<preset, queue, total_entries, pvars>>

\* What the task holds after parsers::parse returned r (or panicked).
TaskAfterParse(r) ==
    IF r.r = "panic" THEN Task("panicked", <<>>)
    ELSE Task("parsed", IF r.r = "ok" THEN normalize(r.out) ELSE <<>>)

\* A worker runs the closure of the par_iter on batch b, up to the send.
TaskParse(b) ==
    /\ mpc = "par"
    /\ tasks[b].st = "todo"
    /\ tasks' = [tasks EXCEPT
                   ![b] = TaskAfterParse(parse(preset, BatchBytes(batches[b], mmap)))]
    /\ UNCHANGED <<wvars, mvars, pvars>>
    /\ UNCHANGED <<preset, queue, tx_alive, rx_alive, total_entries>>

\* A send that puts nothing on the queue for a batch without entries.
TaskSend_SkipsEmpty(b) ==
    /\ mpc = "par"
    /\ tasks[b].st = "parsed"
    /\ IF rx_alive
       THEN /\ queue' = IF tasks[b].parsed = <<>> THEN queue
                        ELSE Append(queue, [b |-> b, entries |-> tasks[b].parsed])
            /\ tasks' = [tasks EXCEPT ![b].st = "sent"]
       ELSE /\ queue' = queue
            /\ tasks' = [tasks EXCEPT ![b].st = "panicked"]
    /\ UNCHANGED <<wvars, mvars, pvars>>
    /\ UNCHANGED <<preset, tx_alive, rx_alive, total_entries>>

\* tx.send(parsed).unwrap(): send fails once the receiver is dropped.
TaskSend(b) ==
    /\ mpc = "par"
    /\ tasks[b].st = "parsed"
    /\ IF rx_alive
       THEN /\ queue' = Append(queue, [b |-> b, entries |-> tasks[b].parsed])
            /\ tasks' = [tasks EXCEPT ![b].st = "sent"]
       ELSE /\ queue' = queue
            /\ tasks' = [tasks EXCEPT ![b].st = "panicked"]
    /\ UNCHANGED <<wvars, mvars, pvars>>
    /\ UNCHANGED <<preset, tx_alive, rx_alive, total_entries>>

\* The worker pool runs any task that is ready.
WorkerParse == \E b \in DOMAIN tasks : TaskParse(b)

WorkerSend == \E b \in DOMAIN tasks : TaskSend(b)

RECURSIVE SumLens(_, _)
SumLens(ts, k) ==
    IF k = 0 THEN 0 ELSE Len(ts[k].parsed) + SumLens(ts, k - 1)

\* .sum(): every task has returned its len.
MainSum ==
    /\ mpc = "par"
    /\ \A b \in DOMAIN tasks : tasks[b].st = "sent"
    /\ total_entries' = SumLens(tasks, Len(tasks))
    /\ mpc' = "summed"
    /\ UNCHANGED <<wvars, pvars>>
    /\ UNCHANGED <<mmap, batch_size, line_positions, total_lines, batches>>
    /\ UNCHANGED <<preset, tasks, queue, tx_alive, rx_alive>>

\* A task panicked: once no task is running, the panic is resumed in main,
\* which unwinds and drops tx.
MainPanic ==
    /\ mpc = "par"
    /\ \E b \in DOMAIN tasks : tasks[b].st = "panicked"
    /\ \A b \in DOMAIN tasks : tasks[b].st # "parsed"
    /\ mpc' = "panicked"
    /\ tx_alive' = FALSE
    /\ UNCHANGED <<wvars, pvars>>
    /\ UNCHANGED <<mmap, batch_size, line_positions, total_lines, batches>>
    /\ UNCHANGED <<preset, tasks, queue, rx_alive, total_entries>>

\* drop(tx)
DropTx ==
    /\ mpc = "summed"
    /\ tx_alive' = FALSE
    /\ mpc' = "join"
    /\ UNCHANGED <<wvars, pvars>>
    /\ UNCHANGED <<mmap, batch_size, line_positions, total_lines, batches>>
    /\ UNCHANGED <<preset, tasks, queue, rx_alive, total_entries>>

\* writer_handle.join().unwrap(), the thread having returned: Ok(())
JoinOk ==
    /\ mpc = "join"
    /\ wpc = "finished"
    /\ mpc' = "done"
    /\ UNCHANGED <<wvars, pvars, svars>>
    /\ UNCHANGED <<mmap, batch_size, line_positions, total_lines, batches>>

\* A join whose Err is dropped instead of unwrapped.
JoinPanic_ReportsOk ==
    /\ mpc = "join"
    /\ wpc = "panicked"
    /\ mpc' = "done"
    /\ UNCHANGED <<wvars, pvars, svars>>
    /\ UNCHANGED <<mmap, batch_size, line_positions, total_lines, batches>>

\* writer_handle.join().unwrap(), the thread having panicked
JoinPanic ==
    /\ mpc = "join"
    /\ wpc = "panicked"
    /\ mpc' = "panicked"
    /\ UNCHANGED <<wvars, pvars, svars>>
    /\ UNCHANGED <<mmap, batch_size, line_positions, total_lines, batches>>

\* The writer thread: let mut writer = create_writer(&output_arg).unwrap()
T_Create ==
    /\ wpc = "new"
    /\ LET r == create_writer(output_arg, fs_ok)
       IN  /\ writer' = r.w
           /\ wpc' = IF r.ok THEN "open" ELSE "panicked"
           /\ rx_alive' = r.ok
    /\ UNCHANGED <<output_arg, fs_ok, out, passed, wcalls, mvars, pvars>>
    /\ UNCHANGED <<preset, tasks, queue, tx_alive, total_entries>>

\* The writer thread: one turn of `for batch in rx`
T_Recv ==
    /\ wpc = "open"
    /\ queue # <<>>
    /\ LET r == write_batch(writer, out, Head(queue).entries)
       IN  /\ writer' = r.w
           /\ out' = r.o
    /\ passed' = passed + Len(Head(queue).entries)
    /\ wcalls' = Append(wcalls,
                        Call("write_batch", Head(queue).entries, Head(queue).b))
    /\ queue' = Tail(queue)
    /\ UNCHANGED <<output_arg, fs_ok, wpc, mvars, pvars>>
    /\ UNCHANGED <<preset, tasks, tx_alive, rx_alive, total_entries>>

\* `for batch in rx` ends: the channel is empty and every sender is dropped.
RecvEnds_IgnoresSenders(q, senders) == q = <<>>

RecvEnds(q, senders) == q = <<>> /\ ~senders

\* The writer thread: writer.finish().unwrap(), and the thread returns
T_Finish ==
    /\ wpc = "open"
    /\ RecvEnds(queue, tx_alive)
    /\ out' = finish(writer, out)
    /\ wpc' = "finished"
    /\ rx_alive' = FALSE
    /\ wcalls' = Append(wcalls, Call("finish", <<>>, 0))
    /\ UNCHANGED <<output_arg, fs_ok, writer, passed, mvars, pvars>>
    /\ UNCHANGED <<preset, tasks, queue, tx_alive, total_entries>>

\* What a write_batch that returns Err part-way has handed to the
\* destination: the old output and the first k tokens of what a whole call
\* would add.
PartialWrite(w, o, logs, k) == SubSeq(write_batch(w, o, logs).o, 1, Len(o) + k)

\* How many tokens a whole write_batch would add.
WriteSize(w, o, logs) == Len(write_batch(w, o, logs).o) - Len(o)

\* The writer thread: writer.write_batch(&batch).unwrap() where a write
\* returns Err: the thread panics and rx is dropped.
T_RecvFail ==
    /\ wpc = "open"
    /\ queue # <<>>
    /\ \E k \in 0..(WriteSize(writer, out, Head(queue).entries) - 1) :
          out' = PartialWrite(writer, out, Head(queue).entries, k)
    /\ wpc' = "panicked"
    /\ rx_alive' = FALSE
    /\ wcalls' = Append(wcalls,
                        Call("write_batch_err", Head(queue).entries, Head(queue).b))
    /\ queue' = Tail(queue)
    /\ UNCHANGED <<output_arg, fs_ok, writer, passed, mvars, pvars>>
    /\ UNCHANGED <<preset, tasks, tx_alive, total_entries>>

\* The writer thread: writer.finish().unwrap() where the closing write or
\* the flush returns Err: the thread panics.
T_FinishFail ==
    /\ wpc = "open"
    /\ RecvEnds(queue, tx_alive)
    /\ out' \in {out, finish(writer, out)}
    /\ wpc' = "panicked"
    /\ rx_alive' = FALSE
    /\ wcalls' = Append(wcalls, Call("finish_err", <<>>, 0))
    /\ UNCHANGED <<output_arg, fs_ok, writer, passed, mvars, pvars>>
    /\ UNCHANGED <<preset, tasks, queue, tx_alive, total_entries>>

Next ==
    \/ IndexLines
    \/ SliceBatch
    \/ SliceDone
    \/ Spawn
    \/ WorkerParse
    \/ WorkerSend
    \/ MainSum
    \/ MainPanic
    \/ DropTx
    \/ JoinOk
    \/ JoinPanic
    \/ T_Create
    \/ T_Recv
    \/ T_Finish
    \/ T_RecvFail
    \/ T_FinishFail

Spec == Init /\ [][Next]_vars

\* C7: with a format name that is not one of the five, no batch is parsed,
\* no batch result is sent to the writer, and the run does not complete
\* successfully.
C7_UnknownFormatAborts ==
    preset \notin AllFormats =>
        /\ \A b \in DOMAIN tasks : tasks[b].st = "todo"
        /\ queue = <<>>
        /\ mpc # "done"

\* C8: when create_writer returns an error, no batch is parsed and none is
\* sent to the queue, in any interleaving.
C8_BadDestinationAborts ==
    ~create_writer(output_arg, fs_ok).ok =>
        /\ \A b \in DOMAIN tasks : tasks[b].st = "todo"
        /\ queue = <<>>

\* Nothing has panicked: no task, not the writer thread, not main.
NoFailure ==
    /\ mpc # "panicked"
    /\ wpc # "panicked"
    /\ \A b \in DOMAIN tasks : tasks[b].st # "panicked"

WriteCalls == { i \in 1..Len(wcalls) : wcalls[i].op = "write_batch" }

FinishCalls == { i \in 1..Len(wcalls) : wcalls[i].op = "finish" }

SentTasks == { b \in DOMAIN tasks : tasks[b].st = "sent" }

\* C9: in a run where nothing fails, every write_batch is of a batch result
\* that was placed on the queue, no result is written twice and every
\* result is either still on the queue or written; finish is called at most
\* once, as the last call, only when every task has sent its result, the
\* sender is dropped and the queue is empty; and a run that completes has
\* called it.
C9_WriteOncePerBatchThenFinish ==
    NoFailure =>
        /\ \A i \in WriteCalls :
              /\ wcalls[i].b \in SentTasks
              /\ wcalls[i].arg = tasks[wcalls[i].b].parsed
        /\ \A i, j \in WriteCalls : wcalls[i].b = wcalls[j].b => i = j
        /\ Cardinality(WriteCalls) + Len(queue) = Cardinality(SentTasks)
        /\ Cardinality(FinishCalls) <= 1
        /\ FinishCalls # {} =>
              /\ FinishCalls = {Len(wcalls)}
              /\ SentTasks = DOMAIN tasks
              /\ Cardinality(WriteCalls) = Len(tasks)
              /\ ~tx_alive
              /\ queue = <<>>
        /\ mpc = "done" => Cardinality(FinishCalls) = 1

\* C9's case: a run of two batches or more, one of them with entries, that
\* completed without a failure.
C9_Witness ==
    /\ mpc = "done"
    /\ NoFailure
    /\ Len(tasks) >= 2
    /\ \E i \in WriteCalls : wcalls[i].arg # <<>>
    /\ Cardinality(FinishCalls) = 1

\* The calls on the writer that returned Err.
FailedCalls ==
    { i \in 1..Len(wcalls) : wcalls[i].op \in {"write_batch_err", "finish_err"} }

\* Some task has not called parsers::parse yet: the guard of WorkerParse.
TaskReady == mpc = "par" /\ \E b \in DOMAIN tasks : tasks[b].st = "todo"

\* main or the worker pool can take a step.
MainCanStep ==
    \/ TaskReady
    \/ ENABLED (WorkerSend \/ MainSum \/ MainPanic \/ DropTx \/ JoinPanic)

\* C11: once write_batch or finish has failed, the run never reports
\* success, the failed call is the last call made on the writer (no later
\* write_batch, no later finish with its closing framing), and main is not
\* stuck: until it has ended in a panic, main or a worker can step.
C11_WriteFailureIsFatal ==
    FailedCalls # {} =>
        /\ mpc # "done"
        /\ FailedCalls = {Len(wcalls)}
        /\ mpc # "panicked" => MainCanStep

\* C11's case: a write_batch failed after an earlier one had succeeded,
\* tasks went on, and main ended in a panic.
C11_Witness ==
    /\ FailedCalls # {}
    /\ Len(wcalls) >= 2
    /\ mpc = "panicked"
    /\ \E b \in DOMAIN tasks : tasks[b].st = "sent"

\* The entries handed to the writer by the write_batch calls that
\* returned Ok, in the order of the calls.
RECURSIVE DeliveredEntries(_, _)
DeliveredEntries(calls, k) ==
    IF k = 0 THEN <<>>
    ELSE DeliveredEntries(calls, k - 1)
            \o (IF calls[k].op = "write_batch" THEN calls[k].arg ELSE <<>>)

\* The entries of the first k batches of the file, as its format's parser
\* returns them: what the buffer, the format and the batch size determine.
RECURSIVE ExpectedEntries(_)
ExpectedEntries(k) ==
    IF k = 0 THEN <<>>
    ELSE ExpectedEntries(k - 1)
            \o TaskAfterParse(parse(preset, BatchBytes(batches[k], mmap))).parsed

Occurrences(s, e) == Cardinality({ i \in 1..Len(s) : s[i] = e })

SameMultiset(s, t) ==
    /\ Len(s) = Len(t)
    /\ \A i \in 1..Len(s) : Occurrences(s, s[i]) = Occurrences(t, s[i])

\* main has returned or panicked.
RunEnded == mpc \in {"done", "panicked"}

\* C12: with a destination that opens and writes that succeed, every run on
\* the same buffer, format and batch size has, when it ends, delivered the
\* same multiset of entries to the writer: the entries of the buffer's
\* batches.
C12_SameMultisetEveryRun ==
    (RunEnded /\ create_writer(output_arg, fs_ok).ok /\ FailedCalls = {})
        => SameMultiset(DeliveredEntries(wcalls, Len(wcalls)),
                        ExpectedEntries(Len(batches)))

\* C13: the entries a task got from the parser for its batch are at most
\* the lines of the batch's byte range, and total_entries is at most
\* total_lines.
C13_EntriesAtMostLines ==
    /\ \A b \in DOMAIN tasks :
          Len(tasks[b].parsed) <= NumLines(BatchBytes(batches[b], mmap))
    /\ total_entries <= total_lines

\* C13's case: the sum is taken over a run in which some batch gave two
\* entries or more.
C13_Witness ==
    /\ mpc = "summed"
    /\ total_entries >= 2
    /\ \E b \in DOMAIN tasks : Len(tasks[b].parsed) >= 2
    /\ \E b \in DOMAIN tasks :
          Len(tasks[b].parsed) < NumLines(BatchBytes(batches[b], mmap))

\* The n-th space-delimited token of a line (n >= 1; the last one runs to
\* the end of the line).
Token(line, n) ==
    LET sp == memchr_iter(" ", line)
    IN  Slice(line,
              IF n = 1 THEN 0 ELSE sp[n - 1] + 1,
              IF n <= Len(sp) THEN sp[n] ELSE Len(line))

\* 'LEVEL DATE TIME,MICROS MODULE MESSAGE': four non-empty tokens, the
\* third with a comma inside it and none in the others, then a message.
PythonShape(line) ==
    /\ Len(memchr_iter(" ", line)) >= 4
    /\ \A n \in 1..4 : Token(line, n) # <<>>
    /\ \A n \in {1, 2, 4} : ~Contains(Token(line, n), ",")
    /\ LET time == Token(line, 3)
       IN  /\ Cardinality({ i \in 1..Len(time) : time[i] = "," }) = 1
           /\ time[1] # "," /\ time[Len(time)] # ","
    /\ memchr_iter(" ", line)[4] + 1 < Len(line)

\* C14: a python_web line of the shape 'LEVEL DATE TIME,MICROS MODULE
\* MESSAGE' gives one entry whose host is the MODULE token.
C14_PythonHostIsModule ==
    (p_pc = "done" /\ p_fmt = "python_web" /\ PythonShape(TheLine))
        => /\ p_result.r = "ok"
           /\ Len(p_result.out) = 1
           /\ p_result.out[1].host = Token(TheLine, 4)

\* The level of a text by the words in it: error for "error" or "fail",
\* otherwise warn for "warn", otherwise info, in any case of the letters.
WordLevel(text) ==
    IF HasSubIgnoreCase(text, <<"e","r","r","o","r">>)
       \/ HasSubIgnoreCase(text, <<"f","a","i","l">>)
    THEN LEVEL_ERROR
    ELSE IF HasSubIgnoreCase(text, <<"w","a","r","n">>) THEN LEVEL_WARN
    ELSE LEVEL_INFO

\* C15: every entry of a syslog line has the level of the words in its
\* message: error for "error" or "fail", otherwise warn for "warn",
\* otherwise info.
C15_SyslogLevel ==
    (p_pc = "done" /\ p_fmt = "syslog") =>
        \A i \in 1..Len(p_result.out) :
            p_result.out[i].level = WordLevel(p_result.out[i].message)

\* C16: every entry of a journalctl line has the level of the words in its
\* message, whatever the order of the words: error for "error" or "fail",
\* otherwise warn for "warn", otherwise info.
C16_JournalLevel ==
    (p_pc = "done" /\ p_fmt = "journalctl") =>
        \A i \in 1..Len(p_result.out) :
            p_result.out[i].level = WordLevel(p_result.out[i].message)

\* The status token of an nginx line whose request ends at offset req_end:
\* the bytes after the closing quote and the spaces that follow it, up to
\* the next space or the end of the line.
StatusTokenFrom(line, s) == Slice(line, s, ScanTo(line, s, {" "}))

NginxStatusToken(line, req_end) ==
    StatusTokenFrom(line, SkipWhile(line, req_end + 1, " "))

IsThreeDigits(tok) ==
    Len(tok) = 3 /\ \A k \in 1..Len(tok) : tok[k] \in DOMAIN DigitVal

\* C17: an nginx line whose status token holds a byte that is no digit, or
\* is not exactly three digits long, gives no entry.
C17_NginxBadStatusSkipped ==
    (/\ p_pc = "done" /\ p_fmt = "nginx"
     /\ nginx_scan(TheLine).req_end # Absent
     /\ ~IsThreeDigits(NginxStatusToken(TheLine, nginx_scan(TheLine).req_end)))
        => p_result.out = <<>>

\* The second token of a request line, empty when there is none.
RequestPath(request) ==
    IF Contains(request, " ") THEN Token(request, 2) ELSE <<>>

StatusNumber(s) == DigitVal[s[1]] * 100 + DigitVal[s[2]] * 10 + DigitVal[s[3]]

\* What C18 says of the entry e of a line with the request line request and
\* the three status digits s.
NginxEntryAsSpecified(e, line, request, s) ==
    /\ e.level = (IF StatusNumber(s) >= 400 /\ StatusNumber(s) <= 499
                  THEN LEVEL_WARN
                  ELSE IF StatusNumber(s) >= 500 THEN LEVEL_ERROR
                  ELSE LEVEL_INFO)
    /\ e.host = Token(line, 1)
    /\ e.message = Token(request, 1) \o <<" ">> \o RequestPath(request)
                      \o <<" ","-",">"," ">> \o s

\* The three bytes that start the status token.
StatusDigits(line, req_end) ==
    SubSeq(NginxStatusToken(line, req_end), 1, 3)

\* C18: an entry of an nginx line has level warn for a status from 400 to
\* 499, error from 500 on and info otherwise, the token before the first
\* space as host and 'METHOD PATH -> STATUS' as message.
C18_NginxEntryFields ==
    (p_pc = "done" /\ p_fmt = "nginx" /\ p_result.out # <<>>) =>
        /\ Len(p_result.out) = 1
        /\ NginxEntryAsSpecified(
              p_result.out[1], TheLine,
              Slice(TheLine, nginx_scan(TheLine).req_start,
                             nginx_scan(TheLine).req_end),
              StatusDigits(TheLine, nginx_scan(TheLine).req_end))

\* C18's case: an entry of a line with a status from 400 to 499.
C18_Witness ==
    /\ p_pc = "done" /\ p_fmt = "nginx"
    /\ Len(p_result.out) = 1
    /\ p_result.out[1].level = LEVEL_WARN
    /\ p_result.out[1].message =
          <<"P","O","S","T"," ","/","a"," ","-",">"," ","4","9","9">>

\* The level a first token names, in any case of its letters.
TokenLevel(tok) ==
    IF to_lowercase(tok) = <<"e","r","r","o","r">> THEN LEVEL_ERROR
    ELSE IF to_lowercase(tok) \in { <<"w","a","r","n">>,
                                    <<"w","a","r","n","i","n","g">> }
    THEN LEVEL_WARN
    ELSE LEVEL_INFO

\* C19: the level of an entry of a python_web line is the one its first
\* space-delimited token names, whatever the message holds.
C19_PythonLevelFromFirstToken ==
    (p_pc = "done" /\ p_fmt = "python_web") =>
        \A i \in 1..Len(p_result.out) :
            p_result.out[i].level = TokenLevel(Token(TheLine, 1))

\* C19's case: a line whose first token names no level and whose message
\* holds "error" gave an entry.
C19_Witness ==
    /\ p_pc = "done" /\ p_fmt = "python_web"
    /\ Len(p_result.out) = 1
    /\ Token(TheLine, 1) = <<"C","R","I","T","I","C","A","L">>
    /\ HasSub(p_result.out[1].message, <<"e","r","r","o","r">>)
    /\ p_result.out[1].level = LEVEL_INFO

\* A syslog line without its '<priority>' prefix, when it has one.
SyslogBody(line) ==
    IF line # <<>> /\ line[1] = "<" /\ Contains(line, ">")
    THEN Slice(line, ScanTo(line, 0, {">"}) + 1, Len(line))
    ELSE line

\* Where HOST ends in a body: the first space from offset 16 on.
HostEnd(body) == ScanTo(body, 16, {" "})

\* body is 15 bytes of timestamp, a space, HOST, a space, APP, ": ", TEXT:
\* HOST is not empty and holds no space, APP holds no ':'.
SyslogBodyShape(body) ==
    /\ Len(body) > 16
    /\ body[1] # "<"
    /\ body[16] = " "
    /\ HostEnd(body) > 16
    /\ HostEnd(body) < Len(body)
    /\ LET colon == ScanTo(body, HostEnd(body) + 1, {":"})
       IN  colon + 1 < Len(body) /\ body[colon + 2] = " "

\* C20: a syslog line of the shape [<priority>] timestamp HOST APP: TEXT
\* gives one entry with the 15 bytes as timestamp, HOST as host, "syslog"
\* as service and 'APP: TEXT', all that follows the host, as message.
C20_SyslogFields ==
    (p_pc = "done" /\ p_fmt = "syslog" /\ SyslogBodyShape(SyslogBody(TheLine)))
        => /\ p_result.r = "ok"
           /\ Len(p_result.out) = 1
           /\ p_result.out[1].timestamp = SubSeq(SyslogBody(TheLine), 1, 15)
           /\ p_result.out[1].host =
                 Slice(SyslogBody(TheLine), 16, HostEnd(SyslogBody(TheLine)))
           /\ p_result.out[1].service = SERVICE_SYSLOG
           /\ p_result.out[1].message =
                 Slice(SyslogBody(TheLine), HostEnd(SyslogBody(TheLine)) + 1,
                       Len(SyslogBody(TheLine)))

\* C20's case: the line '<34>Jan 12 06:30:00 host app: error disk full'
\* gave host 'host', message 'app: error disk full' and level error.
C20_Witness ==
    /\ p_pc = "done" /\ p_fmt = "syslog"
    /\ SubSeq(TheLine, 1, 4) = <<"<","3","4",">">>
    /\ Len(TheLine) = 45
    /\ Len(p_result.out) = 1
    /\ p_result.out[1].host = <<"h","o","s","t">>
    /\ p_result.out[1].level = LEVEL_ERROR
    /\ p_result.out[1].message =
          <<"a","p","p",":"," ","e","r","r","o","r"," ","d","i","s","k"," ",
            "f","u","l","l">>

\* C21: no entry a parser emits has a field that is present and empty.
\* (Every parser wraps every field in Some, so every field is present.)
C21_NoEmptyField ==
    p_pc = "done" =>
        \A i \in 1..Len(p_result.out) :
            /\ p_result.out[i].timestamp # <<>>
            /\ p_result.out[i].host # <<>>
            /\ p_result.out[i].service # <<>>
            /\ p_result.out[i].level # <<>>
            /\ p_result.out[i].message # <<>>

-----------------------------------------------------------------------------
(* SpecChunk: one parser on one input range of several lines, with a byte  *)
(* budget small enough for the range to exceed it.  A range over the       *)
(* budget is split into sub-chunks, one task parses each sub-chunk, the    *)
(* tasks finish in any order, and the parts are collected.                 *)

MaxChunkLines == 3

\* The budgets tried in place of CHUNK_BYTES.
ChunkBudgets == {1, 20, 50}

\* The lines of the ranges: two lines that parse, to different entries, and
\* one that does not (too short; for journalctl, no space after the host).
ChunkLines(fmt) ==
    CASE fmt = "syslog" ->
      { <<"J","a","n"," ","1","2"," ","0","6",":","3","0",":","0","0",
          " ","h"," ","a",":"," ","o","n","e">>,
        <<"J","a","n"," ","1","2"," ","0","6",":","3","0",":","0","1",
          " ","h"," ","a",":"," ","t","w","o">>,
        <<"s","h","o","r","t">> }
      [] fmt = "journalctl" ->
      { <<"J","a","n"," ","1","2"," ","0","6",":","3","0",":","0","0",
          " ","h"," ","s","[","1","]",":"," ","o","n","e">>,
        <<"J","a","n"," ","1","2"," ","0","6",":","3","0",":","0","1",
          " ","h"," ","s","[","1","]",":"," ","t","w","o">>,
        <<"J","a","n"," ","1","2"," ","0","6",":","3","0",":","0","0",
          " ","h","o","s","t","n","a","m","e">> }
      [] fmt = "python_web" ->
      { <<"I","N","F","O"," ","2","0","2","5","-","0","8","-","3","1",
          " ","2","2",":","5","0",":","0","1"," ","m"," ","o","n","e">>,
        <<"E","R","R","O","R"," ","2","0","2","5","-","0","8","-","3",
          "1"," ","2","2",":","5","0",":","0","2"," ","m"," ","t","w",
          "o">>,
        <<"s","h","o","r","t">> }
      [] fmt = "nginx" ->
      { <<"1",".","1",".","1",".","1"," ","-"," ","-"," ","[","t","1",
          "]"," ","\"","G","E","T"," ","/","a"," ","H","\""," ","2","0",
          "0">>,
        <<"2",".","2",".","2",".","2"," ","-"," ","-"," ","[","t","2",
          "]"," ","\"","G","E","T"," ","/","b"," ","H","\""," ","5","0",
          "0">>,
        <<"s","h","o","r","t">> }

\* The ranges: up to MaxChunkLines lines, the last one with or without its
\* newline.
ChunkInputs(fmt) ==
    LET whole == { JoinLines(ls) :
                     ls \in (SeqsUpTo(ChunkLines(fmt), MaxChunkLines) \ {<<>>}) }
    IN  whole \cup { SubSeq(x, 1, Len(x) - 1) : x \in whole }

NoPart == [r |-> "none", out |-> <<>>]

ChunkInit ==
    /\ p_fmt \in Formats
    /\ p_input \in ChunkInputs(p_fmt)
    /\ c_budget \in ChunkBudgets
    /\ p_pc = "ready"
    /\ p_result = [r |-> "none", out |-> <<>>]
    /\ c_ranges = <<>> /\ c_parts = <<>> /\ c_finished = <<>>
    /\ WriterIdle
    /\ MainIdle
    /\ SchedIdle

\* if input.len() > CHUNK_BYTES is false: Ok(parse_single(input.as_bytes()))
C_Single ==
    /\ p_pc = "ready"
    /\ ~(Len(p_input) > c_budget)
    /\ p_result' = parse_single(p_fmt, p_input)
    /\ p_pc' = "done"
    /\ UNCHANGED <<p_fmt, p_input, cvars, wvars, mvars, svars>>

PartsFor(rs) == [k \in 1..Len(rs) |-> NoPart]

\* parse_parallel: the range-building loop
C_Split ==
    /\ p_pc = "ready"
    /\ Len(p_input) > c_budget
    /\ c_ranges' = build_ranges(p_input, 0, c_budget)
    /\ c_parts' = PartsFor(c_ranges')
    /\ p_pc' = "split"
    /\ UNCHANGED <<p_fmt, p_input, p_result, c_budget, c_finished>>
    /\ UNCHANGED <<wvars, mvars, svars>>

\* parse_parallel: the task of the k-th range returns
C_ParsePart(k) ==
    /\ p_pc = "split"
    /\ c_parts[k].r = "none"
    /\ c_parts' = [c_parts EXCEPT
                     ![k] = parse_chunk(p_fmt, Slice(p_input, c_ranges[k].start,
                                                     c_ranges[k].end))]
    /\ c_finished' = Append(c_finished, k)
    /\ UNCHANGED <<p_fmt, p_input, p_pc, p_result, c_budget, c_ranges>>
    /\ UNCHANGED <<wvars, mvars, svars>>

C_Part == \E k \in DOMAIN c_parts : C_ParsePart(k)

\* The parts put together in the order their tasks finished.
RECURSIVE collect_CompletionOrder(_, _)
collect_CompletionOrder(ps, order) ==
    IF \E k \in DOMAIN ps : ps[k].r = "panic" THEN [r |-> "panic", out |-> <<>>]
    ELSE IF order = <<>> THEN [r |-> "ok", out |-> <<>>]
    ELSE [r |-> "ok",
          out |-> ps[Head(order)].out
                     \o collect_CompletionOrder(ps, Tail(order)).out]

RECURSIVE AppendParts(_, _)
AppendParts(ps, k) ==
    IF k = 0 THEN <<>> ELSE AppendParts(ps, k - 1) \o ps[k].out

\* .collect() on the indexed parallel iterator, then
\* for mut p in parts { result.append(&mut p) }: the parts in range order,
\* whatever order their tasks finished in; a panic of a task is the panic of
\* parse_parallel.
collect(ps, order) ==
    IF \E k \in DOMAIN ps : ps[k].r = "panic" THEN [r |-> "panic", out |-> <<>>]
    ELSE [r |-> "ok", out |-> AppendParts(ps, Len(ps))]

\* parse_parallel returns (or unwinds)
C_Collect ==
    /\ p_pc = "split"
    /\ \/ \A k \in DOMAIN c_parts : c_parts[k].r # "none"
       \/ \E k \in DOMAIN c_parts : c_parts[k].r = "panic"
    /\ p_result' = collect(c_parts, c_finished)
    /\ p_pc' = "done"
    /\ UNCHANGED <<p_fmt, p_input, cvars, wvars, mvars, svars>>

ChunkNext == C_Single \/ C_Split \/ C_Part \/ C_Collect

SpecChunk == ChunkInit /\ [][ChunkNext]_vars

\* C22: every sub-chunk ends right after a newline or at the end of the
\* range, and is no larger than the byte budget.
C22_SubChunksAlignedAndCapped ==
    \A k \in 1..Len(c_ranges) :
        /\ \/ c_ranges[k].end = Len(p_input)
           \/ p_input[c_ranges[k].end] = NL
        /\ c_ranges[k].end - c_ranges[k].start <= c_budget

-----------------------------------------------------------------------------
(* The lines of the source against the batches (SpecPartition).            *)

\* The offsets of the first and of the last byte of the j-th line of buf,
\* the newline that ends it being its last byte.
LineFirst(buf, j) == IF j = 1 THEN 0 ELSE memchr_iter(NL, buf)[j - 1] + 1

LineLast(buf, j) ==
    IF j <= Len(memchr_iter(NL, buf)) THEN memchr_iter(NL, buf)[j]
    ELSE Len(buf) - 1

\* The batches that hold the whole j-th line.
HoldingBatches(j) ==
    { k \in 1..Len(batches) :
        /\ batches[k].start <= LineFirst(mmap, j)
        /\ LineLast(mmap, j) <= batches[k].end }

\* C23: every line of the source, the first one, the one after a batch's
\* last boundary and an unterminated last one included, lies wholly inside
\* exactly one batch.
C23_EveryLineInOneBatch ==
    mpc = "sliced" =>
        \A j \in 1..NumLines(mmap) : Cardinality(HoldingBatches(j)) = 1

-----------------------------------------------------------------------------
(* The scheduler's messages and its count (Spec).                          *)

\* The messages sent for batch b: those the writer received and those
\* still on the queue.
MessagesOf(b) ==
    Cardinality({ i \in WriteCalls : wcalls[i].b = b })
        + Cardinality({ j \in DOMAIN queue : queue[j].b = b })

\* What the messages sent for batch b carry.
MessageBodies(b) ==
    { wcalls[i].arg : i \in { i \in WriteCalls : wcalls[i].b = b } }
        \cup { queue[j].entries : j \in { j \in DOMAIN queue : queue[j].b = b } }

\* The sender is dropped by main: drop(tx) has run.
TxDropped == mpc \in {"join", "done"}

\* C24: in a run where nothing fails, one message is sent per batch and no
\* second one, each with the whole entry sequence its batch parses to; the
\* sender is dropped only when every batch's message has been sent; and
\* total_entries of a completed run is the number of entries that the
\* write_batch calls received.
C24_OneMessagePerBatch ==
    NoFailure =>
        /\ \A b \in DOMAIN batches :
              /\ MessagesOf(b) = (IF b \in SentTasks THEN 1 ELSE 0)
              /\ MessageBodies(b) \subseteq
                    { TaskAfterParse(parse(preset,
                                           BatchBytes(batches[b], mmap))).parsed }
        /\ Cardinality(WriteCalls) + Len(queue) = Cardinality(SentTasks)
        /\ TxDropped =>
              /\ Len(tasks) = Len(batches)
              /\ SentTasks = DOMAIN tasks
        /\ mpc = "done" =>
              /\ queue = <<>>
              /\ Cardinality(WriteCalls) = Len(batches)
              /\ total_entries = Len(DeliveredEntries(wcalls, Len(wcalls)))
              /\ total_entries = passed

\* C24's case: a completed run of two batches or more in which one batch
\* gave entries and another gave none.
C24_Witness ==
    /\ mpc = "done"
    /\ NoFailure
    /\ Len(batches) >= 2
    /\ total_entries >= 1
    /\ \E i \in WriteCalls : wcalls[i].arg = <<>>
    /\ \E i \in WriteCalls : wcalls[i].arg # <<>>

-----------------------------------------------------------------------------
(* The order of the entries of one parse (SpecChunk).                      *)

\* The bytes of the j-th line of buf, without the newline that ends it.
LineBytes(buf, j) ==
    Slice(buf, LineFirst(buf, j),
          IF j <= Len(memchr_iter(NL, buf)) THEN memchr_iter(NL, buf)[j]
          ELSE Len(buf))

\* The entries of the first j lines of buf, line after line.
RECURSIVE LineOrderEntries(_, _, _)
LineOrderEntries(fmt, buf, j) ==
    IF j = 0 THEN <<>>
    ELSE LineOrderEntries(fmt, buf, j - 1)
            \o (IF ScanLine(fmt, LineBytes(buf, j)).r = "some"
                THEN <<ScanLine(fmt, LineBytes(buf, j)).e>> ELSE <<>>)

\* C25: the entries of a sub-chunk are in the order of its lines, and the
\* entries a parse returns are in the order of the lines of its range,
\* whatever order the sub-chunk tasks finished in.
C25_EntriesInLineOrder ==
    /\ \A k \in DOMAIN c_parts :
          c_parts[k].r = "ok" =>
              c_parts[k].out =
                  LineOrderEntries(p_fmt,
                      Slice(p_input, c_ranges[k].start, c_ranges[k].end),
                      NumLines(Slice(p_input, c_ranges[k].start, c_ranges[k].end)))
    /\ (p_pc = "done" /\ p_result.r = "ok") =>
          p_result.out = LineOrderEntries(p_fmt, p_input, NumLines(p_input))

\* C25's case: a later sub-chunk's task finished before an earlier one's,
\* both gave entries, and the parse returned.
C25_Witness ==
    /\ p_pc = "done"
    /\ p_result.r = "ok"
    /\ \E i, j \in DOMAIN c_finished :
          /\ i < j
          /\ c_finished[i] > c_finished[j]
          /\ c_parts[c_finished[i]].out # <<>>
          /\ c_parts[c_finished[j]].out # <<>>
          /\ c_parts[c_finished[i]].out # c_parts[c_finished[j]].out

-----------------------------------------------------------------------------
(* The sub-chunk path against the single pass (SpecChunk).                 *)

\* The ranges are contiguous from byte 0 to the end of buf, none is empty,
\* and each ends right after a newline or at the end of buf.
RangesCover(rs, buf) ==
    /\ rs # <<>>
    /\ rs[1].start = 0
    /\ rs[Len(rs)].end = Len(buf)
    /\ \A k \in DOMAIN rs :
          /\ rs[k].start < rs[k].end
          /\ k > 1 => rs[k].start = rs[k - 1].end
          /\ rs[k].end = Len(buf) \/ buf[rs[k].end] = NL

\* C26: the range-building loop ends with contiguous, non-overlapping,
\* line-aligned ranges that cover the range, each one longer than nothing,
\* and the sub-chunk path returns exactly what the single pass over the
\* whole range returns.
C26_ParallelEqualsSingle ==
    /\ p_pc = "split" => RangesCover(c_ranges, p_input)
    /\ p_pc = "done" => p_result = parse_single(p_fmt, p_input)

\* C26's case: the sub-chunk path returned entries of a range that it had
\* split into three sub-chunks or more, the last line without a newline.
C26_Witness ==
    /\ p_pc = "done"
    /\ Len(c_ranges) >= 3
    /\ Len(p_result.out) >= 2
    /\ p_input[Len(p_input)] # NL

-----------------------------------------------------------------------------
(* FairSpec: the whole run where no write to the destination returns Err,  *)
(* every thread that can step being scheduled in the end.                  *)

\* The steps of the main thread.
MainStep ==
    \/ IndexLines
    \/ SliceBatch
    \/ SliceDone
    \/ Spawn
    \/ MainSum
    \/ MainPanic
    \/ DropTx
    \/ JoinOk
    \/ JoinPanic

\* The steps of the worker pool.
WorkerStep == WorkerParse \/ WorkerSend

\* The steps of the writer thread when write_batch and finish return Ok.
WriterStep == T_Create \/ T_Recv \/ T_Finish

FairNext == MainStep \/ WorkerStep \/ WriterStep

\* Weak fairness of WorkerParse, with TaskReady, the guard of WorkerParse,
\* for its ENABLED: a task that has not parsed yet is run in the end.
FairWorkerParse == []<>(~TaskReady) \/ []<><<WorkerParse>>_vars

\* The main thread, the pool's tasks and the writer thread each step in the
\* end when they can: none is starved by the others.
FairSpec ==
    /\ Init
    /\ [][FairNext]_vars
    /\ WF_vars(MainStep)
    /\ WF_vars(WorkerSend)
    /\ FairWorkerParse
    /\ WF_vars(WriterStep)

\* Every run ends: main returns or main panics.
RunTerminates == <>RunEnded

\* A run in which nothing panics ends with the queue drained, the writer
\* thread returned and main's join returned.
RunWithoutPanicCompletes ==
    <>(mpc = "done" /\ wpc = "finished" /\ queue = <<>>) \/ <>(~NoFailure)

\* C27: every run with a destination that opens ends with the queue
\* drained, finish called, the writer thread returned and main's join
\* returned.
C27_RunEndsAfterFinish ==
    create_writer(output_arg, fs_ok).ok =>
        <>(/\ mpc = "done"
           /\ wpc = "finished"
           /\ queue = <<>>
           /\ FinishCalls # {})

====
